---- MODULE Spec2Model ----
(***************************************************************************)
(* TimeSeriesMirror, server.go: the broadcast hub.                         *)
(*                                                                         *)
(* One goroutine (fileIn) reads log lines, builds a record and offers it   *)
(* to the channel of every entry of the global map `clients` under         *)
(* clients_lock.  HTTP handlers run concurrently: registerHandler inserts  *)
(* a fresh id with a channel of capacity 10, socketHandler looks the id up *)
(* (without the lock), upgrades, and runs the delivery loop until a write  *)
(* fails, then deletes the id under the lock; healthHandler reads          *)
(* len(clients) (without the lock).                                        *)
(*                                                                         *)
(* Modelling conventions                                                   *)
(*  - A channel is a heap object: chans[c] is the buffer of channel c, c   *)
(*    its handle, 0 the nil channel.  The map stores handles.              *)
(*  - A record is identified by its publish index (the k-th record that    *)
(*    fileIn fans out is k); the 17 bytes play no part in the hub.         *)
(*  - randstr.Hex(16) is 128 random bits: identifiers are taken fresh.     *)
(*  - mux only routes /socket/{id} with a non-empty id, so the id == ""    *)
(*    branch of socketHandler is not reachable through the router.         *)
(*  - Steps that touch no shared state are merged into the preceding       *)
(*    shared step of the same goroutine.                                   *)
(*  - An unlocked read of the map while another goroutine is inside a      *)
(*    locked write of it is a data race; the Go runtime may detect it      *)
(*    (fatal error: concurrent map read and map write) or let the read     *)
(*    return the old value, the new value or a miss.                       *)
(*                                                                         *)
(* Specifications                                                          *)
(*  - Spec: fileIn and every handler, MaxSock concurrent upgrade requests, *)
(*    MaxPub records.                                                      *)
(*  - SpecDeep: DeepPub records, enough to fill a channel of capacity 10   *)
(*    and publish past it, with DeepSock upgrade requests at a time.       *)
(*  - FairSpec: Spec with the fairness the Go scheduler gives goroutines.  *)
(***************************************************************************)
EXTENDS Integers, Sequences, FiniteSets

\* ---- bounds of the model ----
\* registrations ever performed
MaxClients == 2
\* Spec: concurrent upgrade requests (socketHandler goroutines)
MaxSock == 2
\* Spec: records fileIn publishes
MaxPub == 2
\* SpecDeep: concurrent upgrade requests
DeepSock == 1
\* SpecDeep: records fileIn publishes (two more than a channel holds)
DeepPub == 12
\* SpecDeep: registrations arrive while at most this many records are published
DeepRegBy == 1
\* SpecIngest: lines read from the feed
MaxLines == 3
\* SpecIngest: records fileIn publishes
IngestPub == 2

\* capacity of a subscriber channel: make(chan []byte, 10)
QueueCap == 10

\* the nil channel / the zero value of a map lookup
Nil == 0
\* an identifier no registration ever returned
Unknown == MaxClients + 1
\* source addresses of the feed lines ("" is a line that starts with "-")
Addrs == {"", "a", "b"}
\* a feed line, reduced to what fileIn branches on: its address, whether
\* db.City fails for it, and whether it has two /../ matches
Lines == [ip : Addrs, cityErr : BOOLEAN, twoSegs : BOOLEAN]

Socks == 1..MaxSock

VARIABLES
    clients,       \* the map: identifier -> channel handle
    chans,         \* heap of channels: handle -> buffered records
    clients_lock,  \* holder of the mutex: Free, ByFileIn, ByRegister, BySock(h)
    fpc,           \* fileIn: "open", "scan", "lock", "fanout", "done"
    prevIp,        \* fileIn: prevIp
    pubCount,      \* number of completed fan-outs
    rpc,           \* registerHandler inside its critical section: "idle", "insert"
    sock,          \* socketHandler goroutines: pc, id, ch, val, peer gone
    health,        \* body of the last /health response (-1: none yet)
    crashed,       \* the runtime aborted the process on a detected map race
    regAt,         \* history: handle -> pubCount when its entry was inserted
    taken,         \* history: handle -> number of records received from it
    dropped,       \* history: handle -> the records a fan-out dropped for it
    removed,       \* history: number of deletes that took an entry out of the map
    enc,           \* fileIn: distByte, lat, long of the line being encoded
    frame,         \* fileIn: msg, the bytes built from them
    feed           \* history: the last line read and the db.City calls of its run

\* what only the line-level view of fileIn uses
ing == <<enc, frame, feed>>

vars == <<clients, chans, clients_lock, fpc, prevIp, pubCount, rpc, sock,
          health, crashed, regAt, taken, dropped, removed, ing>>

IdleSock == [pc |-> "idle", id |-> 0, ch |-> Nil, val |-> 0, gone |-> FALSE]

\* sync.RWMutex, only ever taken with Lock(): free or held by one goroutine
Free == <<"free">>
ByFileIn == <<"fileIn">>
ByRegister == <<"register">>
BySock(h) == <<"socket", h>>

\* a float64 as math.Float64bits gives it: four 16-bit limbs, most significant first
ZeroBits == <<0, 0, 0, 0>>

\* distByte, lat, long before any line is encoded
ZeroEnc == [distByte |-> 0, lat |-> ZeroBits, long |-> ZeroBits]

\* no line read yet
NoFeed == [n |-> 0, line |-> <<>>, city |-> "none", calls |-> 0, pubs |-> 0]

\* main() up to go fileIn(clients), leaving open what the encoder is given
InitRest ==
    /\ clients = <<>>
    /\ chans = <<>>
    /\ clients_lock = Free
    /\ fpc = "open"
    /\ prevIp = ""
    /\ pubCount = 0
    /\ rpc = "idle"
    /\ sock = [h \in Socks |-> IdleSock]
    /\ health = -1
    /\ crashed = FALSE
    /\ regAt = <<>>
    /\ taken = <<>>
    /\ dropped = <<>>
    /\ removed = 0
    /\ frame = <<>>
    /\ feed = NoFeed

Init == InitRest /\ enc = ZeroEnc

\* ---- helpers ----

\* ch := clients[id]: the zero value for a missing key
Lookup(m, id) == IF id \in DOMAIN m THEN m[id] ELSE Nil

\* faulty variant of Delete: the entry stays
DeleteNone(m, id) == m

\* faulty variant of Delete: the first entry goes, whichever was asked for
DeleteFirst(m, id) ==
    IF DOMAIN m = {} THEN m
    ELSE LET k0 == CHOOSE k \in DOMAIN m : \A j \in DOMAIN m : k <= j
         IN [k \in DOMAIN m \ {k0} |-> m[k]]

\* delete(clients, id): no-op for a missing key
Delete(m, id) == [k \in DOMAIN m \ {id} |-> m[k]]

\* clients[id] = ch
Insert(m, id, ch) == [k \in DOMAIN m \cup {id} |-> IF k = id THEN ch ELSE m[k]]

\* the channels the map refers to
Registered(m) == {m[k] : k \in DOMAIN m}

\* faulty variant of Offer: the record goes to the front of the buffer
OfferFront(q, msg) == IF Len(q) < QueueCap THEN <<msg>> \o q ELSE q

\* faulty variant of Offer: the buffer has no bound
OfferUnbounded(q, msg) == Append(q, msg)

\* faulty variant of Offer: the capacity test is off by one
OfferOffByOne(q, msg) == IF Len(q) <= QueueCap THEN Append(q, msg) ELSE q

\* select { case ch <- msg: default: }  on a buffer q
Offer(q, msg) == IF Len(q) < QueueCap THEN Append(q, msg) ELSE q

\* a goroutine is between Lock and Unlock about to write the map
Writing == rpc = "insert" \/ \E h \in Socks : sock[h].pc = "delete"

\* the map after the write in progress, if there is one
AfterWrite ==
    IF rpc = "insert" THEN Insert(clients, Len(chans) + 1, Len(chans) + 1)
    ELSE IF \E h \in Socks : sock[h].pc = "delete"
         THEN Delete(clients, sock[CHOOSE h \in Socks : sock[h].pc = "delete"].id)
         ELSE clients

\* ---- fileIn ----

\* geoip2.Open: on error fileIn returns
FileInOpen ==
    /\ ~crashed /\ fpc = "open"
    /\ \E ok \in BOOLEAN : fpc' = IF ok THEN "scan" ELSE "done"
    /\ UNCHANGED <<clients, chans, clients_lock, prevIp, pubCount, rpc, sock,
                   health, crashed, regAt, taken, dropped, removed, ing>>

\* faulty variant of FileInEOF: the queues are emptied when the feed ends
FileInEOFFlush ==
    /\ ~crashed /\ fpc = "scan"
    /\ fpc' = "done"
    /\ chans' = [c \in DOMAIN chans |-> <<>>]
    /\ UNCHANGED <<clients, clients_lock, prevIp, pubCount, rpc, sock,
                   health, crashed, regAt, taken, dropped, removed, ing>>

\* scanner.Scan() returns false
FileInEOF ==
    /\ ~crashed /\ fpc = "scan"
    /\ fpc' = "done"
    /\ UNCHANGED <<clients, chans, clients_lock, prevIp, pubCount, rpc, sock,
                   health, crashed, regAt, taken, dropped, removed, ing>>

\* faulty variant of Skipped: a repeated address is classified again
SkippedEmptyOnly(ip) == ip = ""

\* the two `continue` tests on the address of a line
Skipped(ip) == ip = prevIp \/ ip = ""

\* one iteration of the scan loop up to clients_lock.Lock(), for a line of
\* which ip is getIp(line), cityErr says that db.City fails and twoSegs that
\* the regexp matches twice; publishable lines stop after maxPub records
ScanLine(line, maxPub) ==
    /\ ~crashed /\ fpc = "scan"
    /\ IF Skipped(line.ip)
       THEN /\ fpc' = "scan" /\ prevIp' = prevIp
       ELSE /\ prevIp' = line.ip
            /\ IF line.cityErr THEN fpc' = "done"
               ELSE IF ~line.twoSegs THEN fpc' = "scan"
               ELSE pubCount < maxPub /\ fpc' = "lock"
    /\ UNCHANGED <<clients, chans, clients_lock, pubCount, rpc, sock,
                   health, crashed, regAt, taken, dropped, removed>>

\* the scan loop on a line reduced to the three things it branches on
FileInLine(maxPub) ==
    /\ \E line \in Lines : ScanLine(line, maxPub)
    /\ UNCHANGED ing

\* clients_lock.Lock()
FileInLock ==
    /\ ~crashed /\ fpc = "lock"
    /\ clients_lock = Free
    /\ clients_lock' = ByFileIn
    /\ fpc' = "fanout"
    /\ UNCHANGED <<clients, chans, prevIp, pubCount, rpc, sock,
                   health, crashed, regAt, taken, dropped, removed, ing>>

\* faulty variant of FanOut: the loop gives up when it meets a full channel
FanOutStopOnFull(m, cs, msg) ==
    IF \E c \in Registered(m) : Len(cs[c]) >= QueueCap THEN cs
    ELSE [c \in DOMAIN cs |-> IF c \in Registered(m) THEN Offer(cs[c], msg) ELSE cs[c]]

\* faulty variant of FanOut: the loop ranges over every channel ever made
FanOutStale(m, cs, msg) == [c \in DOMAIN cs |-> Offer(cs[c], msg)]

\* the channels after the range loop offered msg to every entry of m
FanOut(m, cs, msg) ==
    [c \in DOMAIN cs |-> IF c \in Registered(m) THEN Offer(cs[c], msg) ELSE cs[c]]

\* faulty variant of FileInFanout: a subscriber whose queue is full is removed
FileInFanoutEvict ==
    /\ ~crashed /\ fpc = "fanout"
    /\ chans' = FanOut(clients, chans, pubCount + 1)
    /\ clients' = [k \in {j \in DOMAIN clients : Len(chans[clients[j]]) < QueueCap}
                      |-> clients[k]]
    /\ dropped' = [c \in DOMAIN dropped |->
                     IF c \in Registered(clients) /\ Len(chans[c]) >= QueueCap
                     THEN dropped[c] \cup {pubCount + 1} ELSE dropped[c]]
    /\ pubCount' = pubCount + 1
    /\ clients_lock' = Free
    /\ fpc' = "scan"
    /\ UNCHANGED <<prevIp, rpc, sock, health, crashed, regAt, taken, removed, ing>>

\* for _, ch := range clients { select ... }; clients_lock.Unlock()
FileInFanout ==
    /\ ~crashed /\ fpc = "fanout"
    /\ chans' = FanOut(clients, chans, pubCount + 1)
    /\ dropped' = [c \in DOMAIN dropped |->
                     IF c \in Registered(clients) /\ Len(chans[c]) >= QueueCap
                     THEN dropped[c] \cup {pubCount + 1} ELSE dropped[c]]
    /\ pubCount' = pubCount + 1
    /\ clients_lock' = Free
    /\ fpc' = "scan"
    /\ UNCHANGED <<clients, prevIp, rpc, sock, health, crashed, regAt, taken, removed, ing>>

\* ---- registerHandler ----

\* id := randstr.Hex(16); clients_lock.Lock(); the model stops taking
\* registrations once more than regBy records are published
RegisterLock(regBy) ==
    /\ ~crashed /\ rpc = "idle"
    /\ Len(chans) < MaxClients
    /\ pubCount <= regBy
    /\ clients_lock = Free
    /\ clients_lock' = ByRegister
    /\ rpc' = "insert"
    /\ UNCHANGED <<clients, chans, fpc, prevIp, pubCount, sock,
                   health, crashed, regAt, taken, dropped, removed, ing>>

\* faulty variant of RegisterInsert: the new channel starts with the last record
RegisterInsertReplay ==
    /\ ~crashed /\ rpc = "insert"
    /\ LET c == Len(chans) + 1 IN
         /\ chans' = Append(chans, IF pubCount > 0 THEN <<pubCount>> ELSE <<>>)
         /\ clients' = Insert(clients, c, c)
         /\ regAt' = Append(regAt, pubCount)
         /\ taken' = Append(taken, 0)
         /\ dropped' = Append(dropped, {})
    /\ clients_lock' = Free
    /\ rpc' = "idle"
    /\ UNCHANGED <<fpc, prevIp, pubCount, sock, health, crashed, removed, ing>>

\* clients[id] = make(chan []byte, 10); clients_lock.Unlock(); respond with id
RegisterInsert ==
    /\ ~crashed /\ rpc = "insert"
    /\ LET c == Len(chans) + 1 IN
         /\ chans' = Append(chans, <<>>)
         /\ clients' = Insert(clients, c, c)
         /\ regAt' = Append(regAt, pubCount)
         /\ taken' = Append(taken, 0)
         /\ dropped' = Append(dropped, {})
    /\ clients_lock' = Free
    /\ rpc' = "idle"
    /\ UNCHANGED <<fpc, prevIp, pubCount, sock, health, crashed, removed, ing>>

\* ---- socketHandler ----

\* a request for /socket/{id} arrives
SockStart(h) ==
    /\ ~crashed /\ sock[h].pc = "idle"
    /\ \A g \in Socks : g < h => sock[g].pc # "idle"
    /\ \E id \in (1..Len(chans)) \cup {Unknown} :
         sock' = [sock EXCEPT ![h] = [IdleSock EXCEPT !.pc = "lookup", !.id = id]]
    /\ UNCHANGED <<clients, chans, clients_lock, fpc, prevIp, pubCount, rpc,
                   health, crashed, regAt, taken, dropped, removed, ing>>

\* what ch := clients[id] can yield
LookupResults(id) ==
    IF Writing THEN {Lookup(clients, id), Lookup(AfterWrite, id), Nil}
    ELSE {Lookup(clients, id)}

\* faulty variant of SockLookup: the lookup takes the lock and keeps it
SockLookupLocked(h) ==
    /\ ~crashed /\ sock[h].pc = "lookup"
    /\ clients_lock = Free
    /\ clients_lock' = BySock(h)
    /\ \E ok \in BOOLEAN :
         sock' = [sock EXCEPT ![h] =
                    IF ok THEN [@ EXCEPT !.pc = "recv", !.ch = Lookup(clients, sock[h].id)]
                    ELSE IdleSock]
    /\ UNCHANGED <<clients, chans, fpc, prevIp, pubCount, rpc,
                   health, crashed, regAt, taken, dropped, removed, ing>>

\* ch := clients[id]; conn, err := upgrader.Upgrade(w, r, nil)
SockLookup(h) ==
    /\ ~crashed /\ sock[h].pc = "lookup"
    /\ \/ \E c \in LookupResults(sock[h].id), ok \in BOOLEAN :
            /\ sock' = [sock EXCEPT ![h] =
                          IF ok THEN [@ EXCEPT !.pc = "recv", !.ch = c] ELSE IdleSock]
            /\ crashed' = crashed
       \/ /\ Writing
          /\ crashed' = TRUE
          /\ sock' = sock
    /\ UNCHANGED <<clients, chans, clients_lock, fpc, prevIp, pubCount, rpc,
                   health, regAt, taken, dropped, removed, ing>>

\* val := <-ch   (blocks on an empty channel, forever on a nil one)
SockRecv(h) ==
    /\ ~crashed /\ sock[h].pc = "recv"
    /\ sock[h].ch # Nil
    /\ chans[sock[h].ch] # <<>>
    /\ LET c == sock[h].ch IN
         /\ sock' = [sock EXCEPT ![h].pc = "write", ![h].val = Head(chans[c])]
         /\ chans' = [chans EXCEPT ![c] = Tail(@)]
         /\ taken' = [taken EXCEPT ![c] = @ + 1]
    /\ UNCHANGED <<clients, clients_lock, fpc, prevIp, pubCount, rpc,
                   health, crashed, regAt, dropped, removed, ing>>

\* the peer closes the connection
PeerClose(h) ==
    /\ ~crashed /\ sock[h].pc \in {"recv", "write"}
    /\ ~sock[h].gone
    /\ sock' = [sock EXCEPT ![h].gone = TRUE]
    /\ UNCHANGED <<clients, chans, clients_lock, fpc, prevIp, pubCount, rpc,
                   health, crashed, regAt, taken, dropped, removed, ing>>

\* err = conn.WriteMessage(2, val) returns nil
SockWriteOk(h) ==
    /\ ~crashed /\ sock[h].pc = "write"
    /\ ~sock[h].gone
    /\ sock' = [sock EXCEPT ![h].pc = "recv"]
    /\ UNCHANGED <<clients, chans, clients_lock, fpc, prevIp, pubCount, rpc,
                   health, crashed, regAt, taken, dropped, removed, ing>>

\* err = conn.WriteMessage(2, val) fails: break; deferred conn.Close()
SockWriteFail(h) ==
    /\ ~crashed /\ sock[h].pc = "write"
    /\ sock' = [sock EXCEPT ![h].pc = "dlock"]
    /\ UNCHANGED <<clients, chans, clients_lock, fpc, prevIp, pubCount, rpc,
                   health, crashed, regAt, taken, dropped, removed, ing>>

\* deferred clients_lock.Lock()
SockLock(h) ==
    /\ ~crashed /\ sock[h].pc = "dlock"
    /\ clients_lock = Free
    /\ clients_lock' = BySock(h)
    /\ sock' = [sock EXCEPT ![h].pc = "delete"]
    /\ UNCHANGED <<clients, chans, fpc, prevIp, pubCount, rpc,
                   health, crashed, regAt, taken, dropped, removed, ing>>

\* deferred delete(clients, id); clients_lock.Unlock(); the handler returns
SockDelete(h) ==
    /\ ~crashed /\ sock[h].pc = "delete"
    /\ clients' = Delete(clients, sock[h].id)
    /\ clients_lock' = Free
    /\ sock' = [sock EXCEPT ![h] = IdleSock]
    /\ removed' = IF sock[h].id \in DOMAIN clients THEN removed + 1 ELSE removed
    /\ UNCHANGED <<chans, fpc, prevIp, pubCount, rpc,
                   health, crashed, regAt, taken, dropped, ing>>

\* ---- healthHandler ----

\* what len(clients) can yield
LenResults ==
    IF Writing THEN {Cardinality(DOMAIN clients), Cardinality(DOMAIN AfterWrite)}
    ELSE {Cardinality(DOMAIN clients)}

\* w.Write([]byte(fmt.Sprint(len(clients))))
Health ==
    /\ ~crashed
    /\ \E n \in LenResults : health' = n
    /\ UNCHANGED <<clients, chans, clients_lock, fpc, prevIp, pubCount, rpc, sock,
                   crashed, regAt, taken, dropped, removed, ing>>

\* ---- fileIn, line by line ----
\* A line is a sequence of tokens: "-", "/", " " or a word that contains
\* none of the three.

\* the tokens joined into one string
RECURSIVE Join(_)
Join(t) == IF t = <<>> THEN "" ELSE Head(t) \o Join(Tail(t))

\* the tokens of t other than those in drop
RECURSIVE Without(_, _)
Without(t, drop) ==
    IF t = <<>> THEN <<>>
    ELSE IF Head(t) \in drop THEN Without(Tail(t), drop)
    ELSE <<Head(t)>> \o Without(Tail(t), drop)

\* the least element of a non-empty set of numbers
Least(S) == CHOOSE x \in S : \A y \in S : x <= y

\* strings.SplitN(line, "-", 2)[0], as tokens: what precedes the first "-",
\* the whole line if there is none
IpTokens(line) ==
    LET dashes == {i \in 1..Len(line) : line[i] = "-"}
    IN IF dashes = {} THEN line ELSE SubSeq(line, 1, Least(dashes) - 1)

\* getIp(line)
getIp(line) == Join(IpTokens(line))

\* strings.TrimSpace, as tokens: leading and trailing blanks go
RECURSIVE TrimLeft(_)
TrimLeft(t) == IF t # <<>> /\ Head(t) = " " THEN TrimLeft(Tail(t)) ELSE t
RECURSIVE TrimRight(_)
TrimRight(t) ==
    IF t # <<>> /\ t[Len(t)] = " " THEN TrimRight(SubSeq(t, 1, Len(t) - 1)) ELSE t
TrimSpace(t) == TrimRight(TrimLeft(t))

\* the addresses net.ParseIP accepts, among those the lines carry
ValidIPs == {"1.2.3.4", "5.6.7.8"}

\* net.ParseIP: the address, or "" for nil
ParseIP(str) == IF str \in ValidIPs THEN str ELSE ""

\* 51.5, -0.1 and a pattern of eight different bytes, as math.Float64bits
Bits51p5 == <<16457, 49152, 0, 0>>
BitsMinus0p1 == <<49081, 39321, 39321, 39322>>
BitsMixed == <<258, 772, 1286, 1800>>
Doubles == {ZeroBits, Bits51p5, BitsMinus0p1, BitsMixed}

\* what db.City can do for a parsed address: a location, no record for it
\* (no error, the zero location), or an error; for a nil address, an error
CityResults(ipNew) == IF ipNew = "" THEN {"err"} ELSE {"ok", "miss", "err"}

\* results.Location of a lookup
Location(ipNew, city) ==
    IF city # "ok" THEN [lat |-> ZeroBits, long |-> ZeroBits]
    ELSE IF ipNew = "1.2.3.4" THEN [lat |-> Bits51p5, long |-> BitsMinus0p1]
    ELSE [lat |-> BitsMixed, long |-> ZeroBits]

\* regexp `\/(.*?)\/` FindAllString(line, -1): from position i on, the
\* leftmost "/", up to the nearest "/" after it, then on after that one
RECURSIVE FindAllFrom(_, _)
FindAllFrom(line, i) ==
    LET opens == {j \in i..Len(line) : line[j] = "/"}
    IN IF opens = {} THEN <<>>
       ELSE LET a == Least(opens)
                closes == {j \in (a + 1)..Len(line) : line[j] = "/"}
            IN IF closes = {} THEN <<>>
               ELSE <<SubSeq(line, a, Least(closes))>>
                        \o FindAllFrom(line, Least(closes) + 1)

listDistro(line) == FindAllFrom(line, 1)

\* nfoundDistro: the second match without its blanks and slashes
nfoundDistro(line) == Join(Without(listDistro(line)[2], {" ", "/"}))

distList == <<
    "alpine", "archlinux", "archlinux32", "artix-linux", "blender",
    "centos", "clonezilla", "cpan", "cran", "ctan",
    "cygwin", "debian", "debian-cd", "eclipse", "freebsd",
    "gentoo", "gentoo-portage", "gparted", "ipfire", "isabelle",
    "linux", "linuxmint", "manjaro", "msys2", "odroid",
    "openbsd", "opensuse", "parrot", "raspbian", "RebornOS",
    "ros", "sabayon", "serenity", "slackware", "slitaz",
    "tdf", "templeos", "ubuntu", "ubuntu-cdimage", "ubuntu-ports",
    "ubuntu-releases", "videolan", "voidlinux", "zorinos">>

\* faulty variant of distMap: the ids start at 1
distMapFromOne(name) ==
    IF \E i \in 1..Len(distList) : distList[i] = name
    THEN CHOOSE i \in 1..Len(distList) : distList[i] = name
    ELSE 0

\* distMap[name]: the position in distList counted from 0, 0 for a missing key
distMap(name) ==
    IF \E i \in 1..Len(distList) : distList[i] = name
    THEN (CHOOSE i \in 1..Len(distList) : distList[i] = name) - 1
    ELSE 0

\* faulty variant of PutUint64: most significant byte first
PutUint64BigEndian(v) ==
    <<v[1] \div 2^8, v[1] % 2^8, v[2] \div 2^8, v[2] % 2^8,
      v[3] \div 2^8, v[3] % 2^8, v[4] \div 2^8, v[4] % 2^8>>

\* binary.LittleEndian.PutUint64: byte(v), byte(v >> 8), ..., byte(v >> 56)
PutUint64(v) ==
    <<v[4] % 2^8, v[4] \div 2^8, v[3] % 2^8, v[3] \div 2^8,
      v[2] % 2^8, v[2] \div 2^8, v[1] % 2^8, v[1] \div 2^8>>

\* msg := []byte{distByte}; append latByte; append longByte
Encode(e) == <<e.distByte>> \o PutUint64(e.lat) \o PutUint64(e.long)

\* the lines the feed is made of
FeedLines == {
    <<"1.2.3.4", " ", "-", " ", "[10", "/", "Oct", "/", "2000]", " ", "GET", " ", "/", "ubuntu", "/", "dists">>,
    <<"1.2.3.4", " ", "-", " ", "[10", "/", "Oct", "/", "2000]", " ", "GET", " ", "/", " ", "alpine", "/">>,
    <<"1.2.3.4", " ", "-", " ", "GET", " ", "/", "debian", " ", "HTTP", "/", "1.1">>,
    <<"5.6.7.8", " ", "-", " ", "[10", "/", "Oct", "/", "2000]", " ", "GET", " ", "/", "nosuch", "/", "x">>,
    <<"5.6.7.8", " ", "-", " ", "[10", "/", "Oct", "/", "2000]", " ", "GET", " ", "/", "debian", "-", "cd", "/">>,
    <<"5.6.7.8", " ", "-", " ", "GET", " ", "/", "debian", " ", "HTTP", "/", "1.1">>,
    <<"bogus", " ", "-", " ", "[10", "/", "Oct", "/", "2000]", " ", "GET", " ", "/", "alpine", "/">>,
    <<"bogus", " ", "-", " ", "GET", " ", "/", "debian">>,
    <<"-", " ", "x">>,
    <<"junk", " ", "/", "a", "/", " ", "/", "b", "/">> }

\* the scan loop on a line of the feed, from scanner.Text() to the lock
IngestLine(maxPub) ==
    /\ feed.n < MaxLines
    /\ \E line \in FeedLines :
         LET ip == getIp(line)
             skipped == Skipped(ip)
             ipNew == ParseIP(Join(TrimSpace(IpTokens(line))))
         IN \E city \in (IF skipped THEN {"none"} ELSE CityResults(ipNew)) :
              LET twoSegs == Len(listDistro(line)) >= 2
                  encoded == ~skipped /\ city # "err" /\ twoSegs
                  e == [distByte |-> distMap(nfoundDistro(line)) % 2^8,
                        lat |-> Location(ipNew, city).lat,
                        long |-> Location(ipNew, city).long]
              IN /\ ScanLine([ip |-> ip, cityErr |-> city = "err", twoSegs |-> twoSegs],
                             maxPub)
                 /\ enc' = IF encoded THEN e ELSE enc
                 /\ frame' = IF encoded THEN Encode(e) ELSE frame
                 /\ LET sameRun == feed.n > 0 /\ getIp(feed.line) = ip
                    IN feed' = [n |-> feed.n + 1, line |-> line, city |-> city,
                                calls |-> (IF sameRun THEN feed.calls ELSE 0)
                                          + (IF skipped THEN 0 ELSE 1),
                                pubs |-> (IF sameRun THEN feed.pubs ELSE 0)
                                         + (IF encoded THEN 1 ELSE 0)]

Next ==
    \/ FileInOpen
    \/ FileInEOF
    \/ FileInLine(MaxPub)
    \/ FileInLock
    \/ FileInFanout
    \/ RegisterLock(MaxPub)
    \/ RegisterInsert
    \/ \E h \in Socks : SockStart(h)
    \/ \E h \in Socks : SockLookup(h)
    \/ \E h \in Socks : SockRecv(h)
    \/ \E h \in Socks : PeerClose(h)
    \/ \E h \in Socks : SockWriteOk(h)
    \/ \E h \in Socks : SockWriteFail(h)
    \/ \E h \in Socks : SockLock(h)
    \/ \E h \in Socks : SockDelete(h)
    \/ Health

\* every handler and fileIn, few records
Spec == Init /\ [][Next]_vars

NextDeep ==
    \/ FileInOpen
    \/ FileInEOF
    \/ FileInLine(DeepPub)
    \/ FileInLock
    \/ FileInFanout
    \/ RegisterLock(DeepRegBy)
    \/ RegisterInsert
    \/ \E h \in 1..DeepSock : SockStart(h)
    \/ \E h \in 1..DeepSock : SockLookup(h)
    \/ \E h \in 1..DeepSock : SockRecv(h)
    \/ \E h \in 1..DeepSock : SockWriteOk(h)
    \/ \E h \in 1..DeepSock : SockWriteFail(h)
    \/ \E h \in 1..DeepSock : SockLock(h)
    \/ \E h \in 1..DeepSock : SockDelete(h)

\* enough records to fill a channel, fewer concurrent requests; a write may
\* fail at any time here, so the peer's close is not a separate step
SpecDeep == Init /\ [][NextDeep]_vars

\* The Go scheduler runs every runnable goroutine and a mutex is handed to
\* its waiters; the feed, the requests and the peers owe nothing.
Fairness ==
    /\ WF_vars(FileInOpen)
    /\ SF_vars(FileInLock)
    /\ WF_vars(FileInFanout)
    /\ WF_vars(RegisterInsert)
    /\ \A h \in Socks :
          /\ WF_vars(SockLookup(h))
          /\ SF_vars(SockRecv(h))
          /\ WF_vars(SockWriteOk(h) \/ SockWriteFail(h))
          /\ SF_vars(SockLock(h))
          /\ WF_vars(SockDelete(h))

FairSpec == Init /\ [][Next]_vars /\ Fairness

NextIngest ==
    \/ FileInOpen
    \/ FileInEOF
    \/ IngestLine(IngestPub)
    \/ FileInLock
    \/ FileInFanout
    \/ RegisterLock(IngestPub)
    \/ RegisterInsert

\* fileIn on whole lines, with registrations and no upgrade
SpecIngest == Init /\ [][NextIngest]_vars

\* the values the encoder is tried on
EncInputs == [distByte : 0..(2^8 - 1), lat : Doubles, long : Doubles]

InitEncode == InitRest /\ enc \in EncInputs

\* lines 86-97 of fileIn on their own
EncodeRecord ==
    /\ frame = <<>>
    /\ frame' = Encode(enc)
    /\ UNCHANGED <<clients, chans, clients_lock, fpc, prevIp, pubCount, rpc, sock,
                   health, crashed, regAt, taken, dropped, removed, enc, feed>>

\* the encoder as a function of its three inputs
SpecEncode == InitEncode /\ [][EncodeRecord]_vars

\* a step of FileInFanout
FanoutStep == fpc = "fanout" /\ fpc' # "fanout"

\* a step of SockRecv(h)
RecvStep(h) == sock[h].pc = "recv" /\ sock'[h].pc = "write"

\* the delivery loop of h is running (blocked in the receive or in the write)
Delivering(h) == sock[h].pc \in {"recv", "write"}

Last(q) == q[Len(q)]

\* ---- C1 ----
\* C1: every record a delivery loop takes to write to its transport is a
\* record the fan-out published to its channel after registration, later in
\* publish order than the record the loop wrote before it (sock[h].val while
\* the loop waits in the receive); and as long as no fan-out found the
\* channel full, the records taken from it are exactly the published ones,
\* one after the other with none missing.
C1_PublishOrder ==
    [][\A h \in Socks : RecvStep(h) =>
          LET c == sock[h].ch
              r == sock'[h].val
          IN /\ r > sock[h].val
             /\ r \in (regAt[c] + 1)..pubCount
             /\ r \notin dropped[c]
             /\ dropped[c] = {} => r = regAt[c] + taken[c] + 1]_vars

\* a loop writes the third record in a row of a channel that was never full
C1_Witness ==
    \E h \in Socks :
        /\ sock[h].pc = "write" /\ sock[h].ch # Nil
        /\ dropped[sock[h].ch] = {}
        /\ taken[sock[h].ch] = 3
        /\ sock[h].val = regAt[sock[h].ch] + 3

\* ---- C2 ----
\* C2: a fan-out that finds a registered channel holding 10 records leaves
\* that channel as it was and still completes (the lock is released, fileIn
\* is back at the scan); the fan-out step is never blocked; and a record
\* dropped for a channel never shows up in it or in its delivery loop later.
C2_DropOnFull ==
    /\ [](fpc = "fanout" => ENABLED FileInFanout)
    /\ [](\A c \in DOMAIN chans :
            /\ \A i \in 1..Len(chans[c]) : chans[c][i] \notin dropped[c]
            /\ \A h \in Socks :
                  sock[h].pc = "write" /\ sock[h].ch = c => sock[h].val \notin dropped[c])
    /\ [][FanoutStep =>
            /\ \A c \in Registered(clients) :
                  Len(chans[c]) = QueueCap => chans'[c] = chans[c]
            /\ fpc' = "scan" /\ clients_lock' = Free /\ pubCount' = pubCount + 1]_vars

\* a record was dropped for a full channel, and a later record was enqueued
\* on it after a receive made room
C2_Witness ==
    \E c \in DOMAIN chans :
        /\ dropped[c] # {}
        /\ chans[c] # <<>>
        /\ \E d \in dropped[c] : Last(chans[c]) > d

\* ---- C3 ----
\* C3: a fan-out appends the record exactly once to every registered channel
\* that is not full, whatever the state of the other channels.
C3_FanOutAll ==
    [][FanoutStep =>
          \A c \in Registered(clients) :
              Len(chans[c]) < QueueCap => chans'[c] = Append(chans[c], pubCount + 1)]_vars

\* the last record was dropped for one registered channel and enqueued on another
C3_Witness ==
    \E a, b \in Registered(clients) :
        /\ pubCount \in dropped[a]
        /\ chans[b] # <<>>
        /\ Last(chans[b]) = pubCount

\* ---- C4 ----
\* C4: a channel never holds, and its delivery loop never writes, a record
\* whose fan-out had completed when the channel was registered.
C4_NoReplay ==
    /\ \A c \in DOMAIN chans : \A i \in 1..Len(chans[c]) : chans[c][i] > regAt[c]
    /\ \A h \in Socks :
          sock[h].pc = "write" /\ sock[h].ch # Nil => sock[h].val > regAt[sock[h].ch]

\* a subscriber registered after a publish writes a later record
C4_Witness ==
    \E h \in Socks :
        /\ sock[h].pc = "write" /\ sock[h].ch # Nil
        /\ regAt[sock[h].ch] > 0

\* ---- C5 ----
\* C5: no delivery loop runs for an identifier whose lookup did not resolve
\* to a Registry entry.
C5_Claim ==
    \A h \in Socks : Delivering(h) => sock[h].ch # Nil

\* ---- C6 ----
\* C6: a delivery loop whose connection the peer has closed, or whose write
\* has failed, leads to the removal of its identifier from the Registry
\* (unless the process has aborted).
C6_Claim ==
    \A h \in Socks : \A id \in 1..MaxClients :
        ((\/ Delivering(h) /\ sock[h].ch # Nil /\ sock[h].gone
          \/ sock[h].pc = "dlock")
         /\ sock[h].id = id)
        ~> (id \notin DOMAIN clients \/ crashed)

\* the part of C6 the code does provide: a failed write leads to the removal
C6_WriteFailureRemoves ==
    \A h \in Socks : \A id \in 1..MaxClients :
        (sock[h].pc = "dlock" /\ sock[h].id = id)
        ~> (id \notin DOMAIN clients \/ crashed)

\* ---- C7 ----
\* C7: the lock is held only inside the three critical sections (fan-out,
\* insert, delete), each of which can always take its next step; a goroutine
\* blocked in a channel receive or a transport write never holds it.
C7_LockDiscipline ==
    /\ clients_lock = ByFileIn <=> fpc = "fanout"
    /\ clients_lock = ByRegister <=> rpc = "insert"
    /\ \A h \in Socks : clients_lock = BySock(h) <=> sock[h].pc = "delete"
    /\ \A h \in Socks : Delivering(h) => clients_lock # BySock(h)
    /\ crashed \/ (clients_lock = ByFileIn => ENABLED FileInFanout)
    /\ crashed \/ (clients_lock = ByRegister => ENABLED RegisterInsert)
    /\ crashed \/ (\A h \in Socks : clients_lock = BySock(h) => ENABLED SockDelete(h))

\* fileIn waits for the lock while a delivery loop is blocked on its empty
\* channel: the holder is another goroutine, inside its critical section
C7_Witness ==
    /\ fpc = "lock"
    /\ clients_lock # Free
    /\ \E h \in Socks :
          sock[h].pc = "recv" /\ sock[h].ch # Nil /\ chans[sock[h].ch] = <<>>

\* ---- C8 ----
\* C8: no unlocked read of the map (the lookup of socketHandler) is pending
\* while another goroutine is inside a locked write of it.
C8_Claim ==
    ~(Writing /\ \E h \in Socks : sock[h].pc = "lookup")

\* ---- C9 ----
\* C9: a fan-out leaves every channel that is no longer in the Registry
\* untouched and still appends the record to every registered channel with
\* room; a removed channel never grows.
C9_NoStaleEnqueue ==
    [][/\ \A c \in DOMAIN chans \ Registered(clients) :
             \/ chans'[c] = chans[c]
             \/ chans[c] # <<>> /\ chans'[c] = Tail(chans[c])
       /\ FanoutStep /\ DOMAIN chans # Registered(clients) =>
             \A c \in DOMAIN chans :
                 chans'[c] = IF c \in Registered(clients) /\ Len(chans[c]) < QueueCap
                             THEN Append(chans[c], pubCount + 1) ELSE chans[c]]_vars

\* A and B registered under the same publish count, A is removed, and B has
\* been offered more records than A ever was
C9_Witness ==
    \E a, b \in DOMAIN chans :
        /\ a \notin Registered(clients)
        /\ b \in Registered(clients)
        /\ regAt[a] = regAt[b]
        /\ dropped[a] = {} /\ dropped[b] = {}
        /\ Len(chans[b]) + taken[b] > Len(chans[a]) + taken[a]

\* ---- C10 ----
\* C10: while a delivery loop bound to an identifier is running, the
\* identifier is in the Registry.
C10_Claim ==
    \A h \in Socks :
        Delivering(h) /\ sock[h].ch # Nil => sock[h].id \in DOMAIN clients

\* ---- C11 ----
\* C11: every /health response is the number of registrations minus the
\* number of removals; a registration or removal that is inside its critical
\* section when the count is read is counted or not.
C11_HealthCount ==
    [][health' # health =>
          LET n == Len(chans) - removed
              inFlight ==
                  IF rpc = "insert" THEN {n + 1}
                  ELSE IF \E h \in Socks :
                             sock[h].pc = "delete" /\ sock[h].id \in DOMAIN clients
                       THEN {n - 1} ELSE {}
          IN health' \in {n} \cup inFlight]_vars

\* two registrations, one removal, and the response 1
C11_Witness ==
    /\ Len(chans) = 2 /\ removed = 1 /\ ~Writing
    /\ health = 1

\* ---- C12 ----
\* the line just read failed classification: its address is no IP, the
\* resolver gave an error or had no record for it, or the line has fewer than
\* two path segments
FailedLine(f) ==
    \/ f.city \in {"err", "miss"}
    \/ f.city = "ok" /\ Len(listDistro(f.line)) < 2

\* C12: a line whose classification fails publishes no record and leaves the
\* ingestion loop reading the following lines.
C12_Claim ==
    [][feed'.n = feed.n + 1 /\ FailedLine(feed') => fpc' = "scan"]_vars

\* ---- C13 ----
\* C13: in a run of consecutive lines with the same address field, the
\* resolver is called at most once and at most one record goes to publish, and
\* a line whose address is the one most recently seen changes nothing.
C13_OncePerRun ==
    [][feed'.n = feed.n + 1 =>
          /\ feed'.calls <= 1 /\ feed'.pubs <= 1
          /\ getIp(feed'.line) = prevIp =>
                /\ feed'.city = "none"
                /\ <<fpc, prevIp, enc, frame, chans>>' = <<fpc, prevIp, enc, frame, chans>>]_vars

\* a second line of a run has been read, after the first one was classified
C13_Witness ==
    /\ feed.n >= 2 /\ feed.city = "none"
    /\ getIp(feed.line) = prevIp
    /\ feed.calls = 1 /\ feed.pubs = 1

\* ---- C14 ----
\* a step of the teardown of handler h: the loop breaks on a failed write, the
\* deferred function takes the lock, or it deletes the entry and returns
TeardownStep(h) ==
    \/ sock[h].pc = "write" /\ sock'[h].pc = "dlock"
    \/ sock[h].pc = "dlock" /\ sock'[h].pc = "delete"
    \/ sock[h].pc = "delete" /\ sock'[h].pc = "idle"

\* C14: a step of the teardown of one subscriber removes at most that
\* subscriber's own registry entry; every other entry, every queue, every other
\* delivery loop and the ingestion loop are as they were.
C14_TeardownLocal ==
    [][\A h \in Socks :
          TeardownStep(h) =>
             /\ DOMAIN clients \ {sock[h].id} \subseteq DOMAIN clients'
             /\ DOMAIN clients' \subseteq DOMAIN clients
             /\ \A k \in DOMAIN clients' : clients'[k] = clients[k]
             /\ chans' = chans
             /\ \A g \in Socks \ {h} : sock'[g] = sock[g]
             /\ <<fpc, prevIp, pubCount, rpc>>' = <<fpc, prevIp, pubCount, rpc>>]_vars

\* one subscriber has been torn down while another is registered, has a
\* record queued and a delivery loop waiting on its queue
C14_Witness ==
    /\ removed = 1
    /\ \E g \in Socks :
         /\ sock[g].pc = "recv" /\ sock[g].ch \in Registered(clients)
         /\ chans[sock[g].ch] # <<>>

\* ---- C15 ----
\* the 64-bit pattern whose bytes, least significant first, are b[i..i+7]
LittleEndianUint64(b, i) ==
    <<b[i + 7] * 2^8 + b[i + 6], b[i + 5] * 2^8 + b[i + 4],
      b[i + 3] * 2^8 + b[i + 2], b[i + 1] * 2^8 + b[i]>>

\* C15: once encoded, the record has 17 bytes, each in 0..255; the first is the
\* category index, the next eight decode as a little-endian 64-bit pattern to
\* the latitude and the last eight to the longitude.
C15_RoundTrip ==
    frame # <<>> =>
       /\ Len(frame) = 17
       /\ \A i \in 1..Len(frame) : frame[i] \in 0..(2^8 - 1)
       /\ frame[1] = enc.distByte
       /\ LittleEndianUint64(frame, 2) = enc.lat
       /\ LittleEndianUint64(frame, 10) = enc.long

\* a record with a non-zero category and two different patterns, none of them
\* a palindrome of bytes, has been encoded
C15_Witness ==
    /\ frame # <<>>
    /\ enc.distByte = 2^8 - 1
    /\ enc.lat = BitsMixed /\ enc.long = BitsMinus0p1

\* ---- C16 ----
\* C16: the step that ends fileIn changes neither the registry, the queues, the
\* lock, nor any handler, and leaves enabled every handler step that was
\* enabled; once fileIn has ended it stays ended, never holds the lock, and no
\* record is published or queued any more.
C16_TerminationFrame ==
    [][/\ fpc # "done" /\ fpc' = "done" =>
            /\ <<clients, chans, clients_lock, rpc, sock, health, crashed>>'
                  = <<clients, chans, clients_lock, rpc, sock, health, crashed>>
            /\ \A h \in Socks :
                  /\ ENABLED SockRecv(h) => (ENABLED SockRecv(h))'
                  /\ ENABLED SockLookup(h) => (ENABLED SockLookup(h))'
                  /\ ENABLED SockStart(h) => (ENABLED SockStart(h))'
            /\ ENABLED RegisterInsert => (ENABLED RegisterInsert)'
            /\ ENABLED Health => (ENABLED Health)'
       /\ fpc = "done" =>
            /\ fpc' = "done" /\ pubCount' = pubCount
            /\ clients_lock' # ByFileIn
            /\ \A c \in DOMAIN chans : Len(chans'[c]) <= Len(chans[c])]_vars

\* fileIn has ended while a delivery loop can still take a queued record, and
\* a health request and a new upgrade can be served
C16_Witness ==
    /\ fpc = "done" /\ pubCount > 0
    /\ \E h \in Socks : ENABLED SockRecv(h)
    /\ \E h \in Socks : ENABLED SockStart(h)
    /\ ENABLED Health

\* ---- C17 ----
\* C17: no queue ever holds more than QueueCap records, and a registration adds
\* one registry entry, under an identifier the registry did not have, whose
\* queue is new and empty, and changes no other entry or queue.
C17_BoundedQueue ==
    [][/\ \A c \in DOMAIN chans : Len(chans[c]) <= QueueCap
       /\ \A c \in DOMAIN chans' : Len(chans'[c]) <= QueueCap
       /\ rpc = "insert" /\ rpc' = "idle" =>
            \E id \in DOMAIN clients' \ DOMAIN clients :
               /\ DOMAIN clients' = DOMAIN clients \cup {id}
               /\ \A k \in DOMAIN clients : clients'[k] = clients[k]
               /\ clients'[id] \notin DOMAIN chans
               /\ clients'[id] \notin Registered(clients)
               /\ chans'[clients'[id]] = <<>>
               /\ \A c \in DOMAIN chans : chans'[c] = chans[c]]_vars

\* a queue is full after a record was dropped for it and records were taken
\* from it
C17_Witness ==
    \E c \in DOMAIN chans :
       /\ Len(chans[c]) = QueueCap
       /\ dropped[c] # {} /\ taken[c] > 0

\* ---- C18 ----
\* C18: for a record on its way to the fan-out, the category byte, which is
\* the first byte of the record, is the position counted from 0 of the
\* extracted name in the vocabulary, and 0 when the name is not in it; the
\* vocabulary has no name twice and fewer than 256 names.
C18_CategoryIndex ==
    /\ Len(distList) <= 2^8
    /\ \A i, j \in 1..Len(distList) : distList[i] = distList[j] => i = j
    /\ fpc \in {"lock", "fanout"} =>
          LET name == nfoundDistro(feed.line) IN
             /\ frame[1] = enc.distByte
             /\ \A i \in 1..Len(distList) : distList[i] = name => enc.distByte = i - 1
             /\ (\A i \in 1..Len(distList) : distList[i] # name) => enc.distByte = 0

\* a record whose name is not in the vocabulary is on its way to the fan-out
\* with category 0, the position of "alpine", after an earlier record was
\* published and is still queued
C18_Witness ==
    /\ fpc = "fanout" /\ pubCount = 1
    /\ \A i \in 1..Len(distList) : distList[i] # nfoundDistro(feed.line)
    /\ enc.distByte = 0 /\ distList[1] = "alpine"
    /\ \E c \in DOMAIN chans : chans[c] # <<>>

\* ---- C19 ----
\* C19: reading a line with fewer than two path segments changes no queue,
\* sends nothing to the fan-out and leaves the loop reading the next line.
C19_Claim ==
    [][feed'.n = feed.n + 1 /\ Len(listDistro(feed'.line)) < 2 =>
          chans' = chans /\ fpc' = "scan"]_vars

\* the part of C19 that holds: such a line never reaches the fan-out, and a
\* line that does has its name taken from the second match
C19_NoRecord ==
    [][feed'.n = feed.n + 1 =>
          /\ Len(listDistro(feed'.line)) < 2 => chans' = chans /\ fpc' # "lock" /\ frame' = frame
          /\ fpc' = "lock" =>
                enc'.distByte = distMap(Join(Without(listDistro(feed'.line)[2], {" ", "/"})))]_vars

\* ---- C20 ----
\* no handler has obtained the channel of subscriber c so far
NeverUpgraded(c) == taken[c] = 0 /\ \A h \in Socks : sock[h].ch # c

\* the smaller of two numbers
Min(a, b) == IF a <= b THEN a ELSE b

\* C20: an entry leaves the registry only in the deleting step of a handler
\* that has that identifier; and as long as no handler has obtained the channel
\* of a registered subscriber, the subscriber is in the registry, every value
\* len(clients) can yield counts it, its queue holds the first QueueCap records
\* published since it registered and every later one was dropped for it.
C20_NeverRemoved ==
    /\ [][\A k \in DOMAIN clients \ DOMAIN clients' :
             \E h \in Socks : /\ sock[h].pc = "delete" /\ sock[h].id = k
                              /\ sock'[h].pc = "idle"]_vars
    /\ [](\A c \in DOMAIN chans :
            NeverUpgraded(c) =>
               /\ c \in DOMAIN clients /\ clients[c] = c
               /\ c \in DOMAIN AfterWrite
               /\ \A n \in LenResults : n >= 1
               /\ chans[c] = [i \in 1..Min(QueueCap, pubCount - regAt[c]) |-> regAt[c] + i]
               /\ dropped[c] = (regAt[c] + QueueCap + 1)..pubCount)

\* a subscriber whose channel no handler obtained has a full queue and had two
\* records dropped, while another subscriber was served and torn down
C20_Witness ==
    \E c \in DOMAIN chans :
       /\ NeverUpgraded(c) /\ c \in DOMAIN clients
       /\ Len(chans[c]) = QueueCap /\ Cardinality(dropped[c]) = 2
       /\ removed = 1

TypeOK ==
    /\ DOMAIN clients \subseteq 1..MaxClients
    /\ Len(chans) <= MaxClients
    /\ \A c \in DOMAIN chans : Len(chans[c]) <= QueueCap
    /\ pubCount \in 0..DeepPub
====
